---- MODULE Spec2Model ----
(***************************************************************************)
(* Model of examples/do-function/example-python-function/main.py: the      *)
(* handler main(args) of an HTTP-triggered function.  One activation of    *)
(* the handler is a call; its statements (source lines 10, 11, 12, 15,     *)
(* 16 and the dispatch at 19-59) are the steps of the call.                *)
(***************************************************************************)
EXTENDS Integers, Sequences, FiniteSets, TLC

VARIABLES args, pc, locals, stdout, result, exc, clock

vars == <<args, pc, locals, stdout, result, exc, clock>>

(***************************************************************************)
(* Bounds of the model.                                                    *)
(***************************************************************************)
MaxClock == 2
MaxCalls == 2

(***************************************************************************)
(* Python values.  Every value is a record of the same shape, so that any  *)
(* two values can be compared: kind is the Python type, s the text of a    *)
(* str, n the number of an int, m the items of a dict.                     *)
(***************************************************************************)
EmptyMap == [k \in {} |-> ""]

Str(a) == [kind |-> "str", s |-> a, n |-> 0, m |-> EmptyMap]

PyInt(a) == [kind |-> "int", s |-> "", n |-> a, m |-> EmptyMap]

None_ == [kind |-> "NoneType", s |-> "", n |-> 0, m |-> EmptyMap]

Dict(f) == [kind |-> "dict", s |-> "", n |-> 0, m |-> f]

\* A local variable of main that has not been assigned yet.
Unbound == [kind |-> "unbound", s |-> "", n |-> 0, m |-> EmptyMap]

\* d.get(k, default) of a dict d.
Get(d, k, default) == IF k \in DOMAIN d.m THEN d.m[k] ELSE default

\* The dict after d.setdefault(k, default): the key is added when absent.
DictAfterSetdefault(d, k, default) ==
    IF k \in DOMAIN d.m THEN d ELSE Dict((k :> default) @@ d.m)

\* The dict after d.get(k, default): d.get leaves d as it is.
DictAfterGet(d, k, default) == d

\* Only a dict has the attribute get; v.get on a str or on None raises
\* AttributeError.
HasGet(v) == v.kind = "dict"

\* Truth value of a Python value (bool(v)).
Truthy(v) ==
    CASE v.kind = "str" -> v.s # ""
      [] v.kind = "int" -> v.n # 0
      [] v.kind = "NoneType" -> FALSE
      [] v.kind = "dict" -> DOMAIN v.m # {}

\* The text an f-string puts for {v}: str(v), for the values a name, a
\* method or a path takes here.
PyStr(v) ==
    CASE v.kind = "str" -> v.s
      [] v.kind = "NoneType" -> "None"
      [] v.kind = "int" -> ToString(v.n)

\* datetime.isoformat() of the wall clock, which counts seconds from
\* midnight of an arbitrary day.
Isoformat(t) ==
    "2025-01-01T00:00:" \o (IF t < 10 THEN "0" ELSE "") \o ToString(t)

(***************************************************************************)
(* The statements of main.                                                 *)
(***************************************************************************)

\* Line 10, inner receiver: args.get('query', {}).
QueryOrEmpty(a) == Get(a, "query", Dict(EmptyMap))

\* Line 10, value: args.get('name', q.get('name', 'World')), q a dict.
ResolveNameQueryFirst(a, q) ==
    Get(q, "name", Get(a, "name", Str("World")))

ResolveName(a, q) == Get(a, "name", Get(q, "name", Str("World")))

\* Line 11.
ResolveMethodOr(a) ==
    IF Truthy(Get(a, "__ow_method", None_))
    THEN Get(a, "__ow_method", None_) ELSE Str("GET")

ResolveMethod(a) == Get(a, "__ow_method", Str("GET"))

\* Line 12.
ResolvePath(a) == Get(a, "__ow_path", Str("/"))

\* str.upper() on the method names of the model.
Upper(v) ==
    IF v.kind # "str" THEN v
    ELSE CASE v.s = "get" -> Str("GET")
           [] v.s = "post" -> Str("POST")
           [] OTHER -> v

\* Lines 19 and 34: the tests of the dispatch.
MethodIsGetAnyCase(method) == Upper(method) = Str("GET")

MethodIsGet(method) == method = Str("GET")

MethodIsPost(method) == method = Str("POST")

\* Line 35: body = args.get('body', args).
ReceivedDataOr(a) ==
    IF Truthy(Get(a, "body", None_)) THEN Get(a, "body", None_) ELSE a

ReceivedData(a) == Get(a, "body", a)

\* The headers literal of each branch.
HeadersNoCors == ("Content-Type" :> "application/json")

GetHeaders ==
    ("Content-Type" :> "application/json")
        @@ ("Access-Control-Allow-Origin" :> "*")

PostHeaders ==
    ("Content-Type" :> "application/json")
        @@ ("Access-Control-Allow-Origin" :> "*")

ErrorHeaders ==
    ("Content-Type" :> "application/json")
        @@ ("Access-Control-Allow-Origin" :> "*")

\* Lines 20-33.
GetResultNoName(name, method, path, now) ==
    [statusCode |-> 200,
     headers |-> GetHeaders,
     body |-> [message |-> "Hello, World!",
               timestamp |-> Isoformat(now),
               method |-> method,
               path |-> path,
               language |-> "Python"]]

GetResult(name, method, path, now) ==
    [statusCode |-> 200,
     headers |-> GetHeaders,
     body |-> [message |-> "Hello, " \o PyStr(name) \o "!",
               timestamp |-> Isoformat(now),
               method |-> method,
               path |-> path,
               language |-> "Python"]]

\* Lines 36-47.
PostResult(body, now) ==
    [statusCode |-> 200,
     headers |-> PostHeaders,
     body |-> [message |-> "Data received successfully",
               receivedData |-> body,
               timestamp |-> Isoformat(now)]]

\* Lines 49-59.
ErrorResult(method) ==
    [statusCode |-> 405,
     headers |-> ErrorHeaders,
     body |-> [error |-> "Method " \o PyStr(method) \o " not allowed",
               allowedMethods |-> <<"GET", "POST">>]]

\* No value has been returned (yet).
NoResult == [statusCode |-> 0, headers |-> EmptyMap, body |-> EmptyMap]

\* The frame that holds the locals of call i: each call of main has its own.
SharedFrame(i) == 1

Frame(i) == i

\* What one call of main returns when it runs from line 10 to its return
\* with nothing in between, the clock reading now; NoResult when line 10
\* raises.
Main(a, now) ==
    LET name == ResolveName(a, QueryOrEmpty(a))
        method == ResolveMethod(a)
        path == ResolvePath(a)
    IN  IF ~HasGet(QueryOrEmpty(a)) THEN NoResult
        ELSE IF MethodIsGet(method) THEN GetResult(name, method, path, now)
        ELSE IF MethodIsPost(method) THEN PostResult(ReceivedData(a), now)
        ELSE ErrorResult(method)

(***************************************************************************)
(* The inputs: params mappings as the platform builds them.  Each of the   *)
(* five keys is present or absent on its own.                              *)
(***************************************************************************)
Absent == [kind |-> "absent", s |-> "", n |-> 0, m |-> EmptyMap]

Opt(S) == S \cup {Absent}

MakeParams(name, query, body, method, path) ==
    LET all == [k \in {"name", "query", "body", "__ow_method", "__ow_path"} |->
                  CASE k = "name" -> name
                    [] k = "query" -> query
                    [] k = "body" -> body
                    [] k = "__ow_method" -> method
                    [] k = "__ow_path" -> path]
    IN  Dict([k \in {x \in DOMAIN all : all[x] # Absent} |-> all[k]])

NameVals == {Str(""), Str("Ada")}

QueryVals == {Dict(EmptyMap), Dict([k \in {"name"} |-> Str("Bob")])}

\* A query that is not a mapping: a string (as from ?query=cats), or null.
NonDictQueryVals == {Str("cats"), None_}

BodyVals == {None_, Dict(EmptyMap), Dict([k \in {"x"} |-> PyInt(1)])}

MethodVals ==
    {Str(""), Str("GET"), Str("POST"), Str("get"), Str("post"), Str("DELETE")}

PathVals == {Str(""), Str("/a")}

\* The params: string keys, any JSON value under query.
Params ==
    {MakeParams(n, q, b, m, p) :
        n \in Opt(NameVals), q \in Opt(QueryVals \cup NonDictQueryVals),
        b \in Opt(BodyVals), m \in Opt(MethodVals), p \in Opt(PathVals)}

\* The params of concurrent calls: one for each branch of the dispatch and
\* each source of the name and of the received data.
ConcurrentParams ==
    {MakeParams(Str("Ada"), Absent, Absent, Str("GET"), Absent),
     MakeParams(Absent, Dict([k \in {"name"} |-> Str("Bob")]), Absent,
                Absent, Str("/a")),
     MakeParams(Absent, Absent, Absent, Absent, Absent),
     MakeParams(Str("Ada"), Absent, Dict([k \in {"x"} |-> PyInt(1)]),
                Str("POST"), Absent),
     MakeParams(Absent, Absent, Absent, Str("POST"), Absent),
     MakeParams(Str("Ada"), Absent, Absent, Str("DELETE"), Absent),
     MakeParams(Str("Ada"), Str("cats"), Absent, Absent, Absent)}

(***************************************************************************)
(* The state after the platform has built the params of each call.         *)
(***************************************************************************)
InitCalls(calls, P) ==
    /\ args \in [calls -> P]
    /\ pc = [i \in calls |-> "L10"]
    /\ locals = [f \in calls |->
                    [name |-> Unbound, method |-> Unbound, path |-> Unbound]]
    /\ stdout = [i \in calls |-> <<>>]
    /\ result = [i \in calls |-> NoResult]
    /\ exc = [i \in calls |-> ""]
    /\ clock = 0

Init == InitCalls({1}, Params)

InitConcurrent == InitCalls(1..MaxCalls, ConcurrentParams)

(***************************************************************************)
(* The steps of call i.                                                    *)
(***************************************************************************)

\* Line 10.  The default of the outer get is an argument of the call, so it
\* is evaluated first, whether or not the key 'name' is present.
NameLookup(i) ==
    /\ pc[i] = "L10"
    /\ LET a == args[i]
           q == QueryOrEmpty(a)
       IN  IF HasGet(q)
           THEN /\ locals' = [locals EXCEPT
                                ![Frame(i)].name = ResolveName(a, q)]
                /\ args' = [args EXCEPT
                              ![i] = DictAfterGet(a, "name",
                                         Get(q, "name", Str("World")))]
                /\ pc' = [pc EXCEPT ![i] = "L11"]
                /\ exc' = exc
           ELSE /\ exc' = [exc EXCEPT ![i] = "AttributeError"]
                /\ pc' = [pc EXCEPT ![i] = "raised"]
                /\ UNCHANGED <<locals, args>>
    /\ UNCHANGED <<stdout, result, clock>>

\* Line 11.
MethodLookup(i) ==
    /\ pc[i] = "L11"
    /\ locals' = [locals EXCEPT ![Frame(i)].method = ResolveMethod(args[i])]
    /\ args' = [args EXCEPT
                  ![i] = DictAfterGet(args[i], "__ow_method", Str("GET"))]
    /\ pc' = [pc EXCEPT ![i] = "L12"]
    /\ UNCHANGED <<stdout, result, exc, clock>>

\* Line 12.
PathLookup(i) ==
    /\ pc[i] = "L12"
    /\ locals' = [locals EXCEPT ![Frame(i)].path = ResolvePath(args[i])]
    /\ args' = [args EXCEPT
                  ![i] = DictAfterGet(args[i], "__ow_path", Str("/"))]
    /\ pc' = [pc EXCEPT ![i] = "L15"]
    /\ UNCHANGED <<stdout, result, exc, clock>>

\* Line 15.  A line of the log is kept as its format and its arguments.
LogRequest(i) ==
    /\ pc[i] = "L15"
    /\ stdout' = [stdout EXCEPT ![i] =
                    Append(@, [fmt |-> "Received {} request to {}",
                               vals |-> <<locals[Frame(i)].method,
                                          locals[Frame(i)].path>>])]
    /\ pc' = [pc EXCEPT ![i] = "L16"]
    /\ UNCHANGED <<args, locals, result, exc, clock>>

\* Line 16.  json.dumps takes every value that came out of a JSON document.
LogArgs(i) ==
    /\ pc[i] = "L16"
    /\ stdout' = [stdout EXCEPT ![i] =
                    Append(@, [fmt |-> "Args: {}", vals |-> <<args[i]>>])]
    /\ pc' = [pc EXCEPT ![i] = "L19"]
    /\ UNCHANGED <<args, locals, result, exc, clock>>

\* Lines 19-33.
ReturnGet(i) ==
    /\ pc[i] = "L19"
    /\ MethodIsGet(locals[Frame(i)].method)
    /\ result' = [result EXCEPT ![i] =
                    GetResult(locals[Frame(i)].name, locals[Frame(i)].method,
                              locals[Frame(i)].path, clock)]
    /\ pc' = [pc EXCEPT ![i] = "returned"]
    /\ UNCHANGED <<args, locals, stdout, exc, clock>>

\* Lines 34-47.
ReturnPost(i) ==
    /\ pc[i] = "L19"
    /\ ~MethodIsGet(locals[Frame(i)].method)
    /\ MethodIsPost(locals[Frame(i)].method)
    /\ result' = [result EXCEPT ![i] =
                    PostResult(ReceivedData(args[i]), clock)]
    /\ args' = [args EXCEPT ![i] = DictAfterGet(args[i], "body", args[i])]
    /\ pc' = [pc EXCEPT ![i] = "returned"]
    /\ UNCHANGED <<locals, stdout, exc, clock>>

\* Lines 48-59.
ReturnNotAllowed(i) ==
    /\ pc[i] = "L19"
    /\ ~MethodIsGet(locals[Frame(i)].method)
    /\ ~MethodIsPost(locals[Frame(i)].method)
    /\ result' = [result EXCEPT ![i] = ErrorResult(locals[Frame(i)].method)]
    /\ pc' = [pc EXCEPT ![i] = "returned"]
    /\ UNCHANGED <<args, locals, stdout, exc, clock>>

\* The wall clock that datetime.now() reads moves on.
Tick ==
    /\ clock < MaxClock
    /\ clock' = clock + 1
    /\ UNCHANGED <<args, pc, locals, stdout, result, exc>>

Next ==
    \/ Tick
    \/ \E i \in DOMAIN pc : NameLookup(i)
    \/ \E i \in DOMAIN pc : MethodLookup(i)
    \/ \E i \in DOMAIN pc : PathLookup(i)
    \/ \E i \in DOMAIN pc : LogRequest(i)
    \/ \E i \in DOMAIN pc : LogArgs(i)
    \/ \E i \in DOMAIN pc : ReturnGet(i)
    \/ \E i \in DOMAIN pc : ReturnPost(i)
    \/ \E i \in DOMAIN pc : ReturnNotAllowed(i)

\* One call, on any of the params.
Spec == Init /\ [][Next]_vars

\* Several calls at once, their statements interleaved.
SpecConcurrent == InitConcurrent /\ [][Next]_vars

(***************************************************************************)
(* The properties.  They are stated on the params of a call and on what    *)
(* the call left behind, without the operators of the model above.         *)
(***************************************************************************)
Calls == DOMAIN pc

Has(i, k) == k \in DOMAIN args[i].m

Val(i, k) == args[i].m[k]

\* A step of call i.
CallStep(i) ==
    \/ NameLookup(i) \/ MethodLookup(i) \/ PathLookup(i)
    \/ LogRequest(i) \/ LogArgs(i)
    \/ ReturnGet(i) \/ ReturnPost(i) \/ ReturnNotAllowed(i)

\* Call i has come to its end, by a return or by an exception.
Finished(i) == pc[i] \in {"returned", "raised"}

Returned(i) == pc[i] = "returned" /\ exc[i] = ""

\* The method, the path and the name the interface gives to the params.
SpecMethod(i) == IF Has(i, "__ow_method") THEN Val(i, "__ow_method") ELSE Str("GET")

SpecPath(i) == IF Has(i, "__ow_path") THEN Val(i, "__ow_path") ELSE Str("/")

QueryHasName(i) ==
    /\ Has(i, "query")
    /\ Val(i, "query").kind = "dict"
    /\ "name" \in DOMAIN Val(i, "query").m

SpecName(i) ==
    IF Has(i, "name") THEN Val(i, "name")
    ELSE IF QueryHasName(i) THEN Val(i, "query").m["name"]
    ELSE Str("World")

BothHeaders(h) ==
    /\ {"Content-Type", "Access-Control-Allow-Origin"} \subseteq DOMAIN h
    /\ h["Content-Type"] = "application/json"
    /\ h["Access-Control-Allow-Origin"] = "*"

WithoutTimestamp(r) ==
    [r EXCEPT !.body = [k \in DOMAIN r.body \ {"timestamp"} |-> r.body[k]]]

\* C1: what a call whose resolved method is exactly GET, given or by
\* default, returns is status 200 with the message "Hello, <resolved name>!", the
\* language "Python", and the resolved method and path in its body.
GetGreets ==
    \A i \in Calls :
        (Returned(i) /\ SpecMethod(i) = Str("GET")) =>
            /\ result[i].statusCode = 200
            /\ result[i].body.message = "Hello, " \o SpecName(i).s \o "!"
            /\ result[i].body.language = "Python"
            /\ result[i].body.method = SpecMethod(i)
            /\ result[i].body.path = SpecPath(i)

GetGreetsWitness ==
    /\ Returned(1)
    /\ Has(1, "name") /\ Val(1, "name") = Str("Ada")
    /\ Has(1, "__ow_method") /\ Val(1, "__ow_method") = Str("GET")
    /\ result[1].statusCode = 200
    /\ result[1].body.message = "Hello, Ada!"

\* C2: once line 10 has run, the resolved name is the value of the key name
\* if it is present, whatever query.name is; else query.name if that is
\* present; else "World", also when query itself is absent.
NamePrecedence ==
    \A i \in Calls :
        pc[i] \notin {"L10", "raised"} =>
            /\ Has(i, "name") => locals[i].name = Val(i, "name")
            /\ (~Has(i, "name") /\ QueryHasName(i)) =>
                   locals[i].name = Val(i, "query").m["name"]
            /\ (~Has(i, "name") /\ ~QueryHasName(i)) =>
                   locals[i].name = Str("World")

NamePrecedenceWitness ==
    /\ Returned(1)
    /\ Has(1, "name") /\ QueryHasName(1)
    /\ Val(1, "name") = Str("Ada")
    /\ Val(1, "query").m["name"] = Str("Bob")
    /\ locals[1].name = Str("Ada")
    /\ result[1].statusCode = 200
    /\ result[1].body.message = "Hello, Ada!"

\* C3: what a call whose method is exactly POST returns is status 200 with the
\* message "Data received successfully" and receivedData equal to the
\* value of the key body when the key is present, whatever the value, and
\* to the whole params mapping when the key is absent.
PostEchoes ==
    \A i \in Calls :
        (Returned(i) /\ SpecMethod(i) = Str("POST")) =>
            /\ result[i].statusCode = 200
            /\ result[i].body.message = "Data received successfully"
            /\ Has(i, "body") => result[i].body.receivedData = Val(i, "body")
            /\ ~Has(i, "body") => result[i].body.receivedData = args[i]

PostEchoesWitness ==
    /\ Returned(1)
    /\ Has(1, "__ow_method") /\ Val(1, "__ow_method") = Str("POST")
    /\ Has(1, "body") /\ Val(1, "body") = None_
    /\ result[1].statusCode = 200
    /\ result[1].body.receivedData = None_

\* C4: what a call whose method is neither exactly GET nor exactly POST
\* returns is status 405 with allowedMethods = ["GET", "POST"] and the error
\* "Method <method> not allowed"; no other call returns status 405.
OtherMethodsRejected ==
    \A i \in Calls :
        /\ (Returned(i) /\ SpecMethod(i) \notin {Str("GET"), Str("POST")}) =>
              /\ result[i].statusCode = 405
              /\ result[i].body.allowedMethods = <<"GET", "POST">>
              /\ result[i].body.error =
                     "Method " \o SpecMethod(i).s \o " not allowed"
        /\ result[i].statusCode = 405 =>
              SpecMethod(i) \notin {Str("GET"), Str("POST")}

OtherMethodsRejectedWitness ==
    /\ Returned(1)
    /\ Has(1, "__ow_method") /\ Val(1, "__ow_method") = Str("get")
    /\ result[1].statusCode = 405
    /\ result[1].body.error = "Method get not allowed"

\* C5: every result that is returned, on each of the three branches, has
\* the headers Content-Type: application/json and
\* Access-Control-Allow-Origin: *.
HeadersOnEveryResult ==
    \A i \in Calls : pc[i] = "returned" => BothHeaders(result[i].headers)

HeadersOnEveryResultWitness ==
    /\ Returned(1)
    /\ result[1].statusCode = 405
    /\ BothHeaders(result[1].headers)

\* C6: on every params mapping, whichever of the five keys are absent, a
\* call raises nothing, writes its two lines of log, and stops only by
\* returning a record with a status in {200, 405}, headers and a body.
NeverFails ==
    \A i \in Calls :
        /\ pc[i] # "raised"
        /\ exc[i] = ""
        /\ pc[i] \in {"L19", "returned"} => Len(stdout[i]) = 2
        /\ ~ENABLED CallStep(i) =>
              /\ pc[i] = "returned"
              /\ result[i].statusCode \in {200, 405}
              /\ BothHeaders(result[i].headers)
              /\ DOMAIN result[i].body # {}

\* C7: once lines 11 and 12 have run, the resolved method is the value of
\* __ow_method, or "GET" when the key is absent, and the resolved path is
\* the value of __ow_path, or "/" when the key is absent; a call on the
\* empty mapping returns status 200, "Hello, World!", method "GET", path "/".
DefaultsOnlyWhenAbsent ==
    \A i \in Calls :
        /\ pc[i] \notin {"L10", "L11", "raised"} =>
              /\ Has(i, "__ow_method") => locals[i].method = Val(i, "__ow_method")
              /\ ~Has(i, "__ow_method") => locals[i].method = Str("GET")
        /\ pc[i] \notin {"L10", "L11", "L12", "raised"} =>
              /\ Has(i, "__ow_path") => locals[i].path = Val(i, "__ow_path")
              /\ ~Has(i, "__ow_path") => locals[i].path = Str("/")
        /\ (Finished(i) /\ DOMAIN args[i].m = {}) =>
              /\ Returned(i)
              /\ Len(stdout[i]) = 2
              /\ result[i].statusCode = 200
              /\ result[i].body.message = "Hello, World!"
              /\ result[i].body.method = Str("GET")
              /\ result[i].body.path = Str("/")

DefaultsOnlyWhenAbsentWitness ==
    /\ Returned(1)
    /\ ~Has(1, "__ow_method") /\ ~Has(1, "__ow_path")
    /\ Has(1, "name")
    /\ result[1].statusCode = 200
    /\ result[1].body.method = Str("GET")
    /\ result[1].body.path = Str("/")

\* C8: with calls running at once, their statements interleaved in any
\* order, the outcome of a call is, apart from the timestamp, what the same
\* params give a call that runs alone; so two calls with equal params
\* end alike, with equal results apart from the timestamp.
CallsIndependent ==
    \A i \in Calls :
        Finished(i) =>
            /\ WithoutTimestamp(result[i]) = WithoutTimestamp(Main(args[i], 0))
            /\ (pc[i] = "returned") = (Main(args[i], 0) # NoResult)
            /\ \A j \in Calls :
                  (Finished(j) /\ args[j] = args[i]) =>
                      /\ pc[j] = pc[i]
                      /\ exc[j] = exc[i]
                      /\ WithoutTimestamp(result[j]) = WithoutTimestamp(result[i])

CallsIndependentWitness ==
    /\ Returned(1) /\ pc[2] = "L19"
    /\ args[1] # args[2]
    /\ result[1].statusCode = 200
    /\ result[1].body.message = "Hello, Ada!"
    /\ locals[2].name = Str("Bob")

\* C9: no step of a call changes the params mapping of any call: no key is
\* added, removed or rewritten.
ParamsReadOnly == [][args' = args]_vars

ParamsReadOnlyWitness ==
    /\ Returned(1)
    /\ Has(1, "__ow_method") /\ Val(1, "__ow_method") = Str("POST")
    /\ ~Has(1, "body")
    /\ result[1].body.receivedData = args[1]

\* C10: when the key name is present, query is not consulted: the call
\* returns, and greets with the value of name, for every value of query,
\* also one that is not a mapping.
NameShortCircuits ==
    \A i \in Calls :
        (Finished(i) /\ Has(i, "name")) =>
            /\ Returned(i)
            /\ SpecMethod(i) = Str("GET") =>
                  result[i].body.message = "Hello, " \o Val(i, "name").s \o "!"

====
